---------------------------- MODULE Spec2Model ----------------------------
(***************************************************************************)
(* A model of wikipedia-rs: the continuation iterator (src/src/iter.rs,    *)
(* the cont! macro of src/src/macros.rs, the request_* functions and       *)
(* parse_cont of src/src/lib.rs), the redirect-following single-item       *)
(* operations of Page (src/src/lib.rs), the item extractors on their own   *)
(* (src/src/iter.rs) and the url format of Wikipedia (src/src/lib.rs).     *)
(*                                                                         *)
(* Strings are TLA+ strings.  A parsed JSON tree is the input of the core: *)
(* an object is modelled by the fields the code reads, and the entries of  *)
(* an object (`pages`, `continue`) are a sequence in the iteration order   *)
(* of the parsed map.                                                      *)
(***************************************************************************)
EXTENDS Integers, Sequences, FiniteSets, TLC

VARIABLES
    kind,       \* the resource kind B of Iter<A, B>
    ident,      \* Page.identifier of the page the iterator borrows
    phase,      \* "init": before Iter::new; "iter"; "err": new failed; "panic"
    inner,      \* Iter.inner: the raw elements not yet consumed
    cont,       \* Iter.cont: Option<Vec<(String, String)>>
    newErr,     \* the error Iter::new returned, "" if none
    reqs,       \* every request the client was handed, in order (argument lists)
    resps,      \* the response the server gave to each request
    outs,       \* what each next() call returned, in order
    served,     \* the repertoire of the server: "pages" or "tokens"
    op,         \* the single-item operation the caller invoked
    origin,     \* the identifier of the Page it was invoked on
    self,       \* the identifier of the Page whose query is running (the recursion)
    pc,         \* "idle", "run" (a query is due), "done" (the call returned)
    result,     \* what the call returned
    preqs,      \* the requests of the call, in order
    presps,     \* the response to each of them
    srv,        \* the server: the response it gives for each page asked so far
    calls,      \* the calls that returned before the current one
    ekind,      \* the item type whose from_value is applied
    raws,       \* the raw elements handed to from_value, in order
    gots,       \* what from_value returned for each of them
    pre_language_url,   \* Wikipedia.pre_language_url
    language,           \* Wikipedia.language
    post_language_url,  \* Wikipedia.post_language_url
    format,     \* the url format most recently set
    uops,       \* the assignments and set_base_url calls made so far
    its,        \* two iterators of one client: the state of each and its logs
    wire,       \* the requests the shared client was handed, with the iterator
    web         \* the server behind the client: its response to each request so far

itVars == <<kind, ident, phase, inner, cont, newErr, reqs, resps, outs, served>>
pgVars == <<op, origin, self, pc, result, preqs, presps, srv, calls>>
exVars == <<ekind, raws, gots>>
urlVars == <<pre_language_url, language, post_language_url, format, uops>>
twoVars == <<its, wire, web>>
vars == <<itVars, pgVars, exVars, urlVars, twoVars>>

-----------------------------------------------------------------------------
(* Bounds of the model *)

MaxFetch == 3       \* requests one iterator may issue
MaxCalls == 4       \* next() calls on one iterator
MaxHops == 4        \* requests one single-item call may issue
MaxRounds == 2      \* elements handed to from_value in a row
MaxOps == 3         \* assignments and set_base_url calls on one Wikipedia

-----------------------------------------------------------------------------
(* JSON values, as far as the code inspects them *)

JAbsent == [t |-> "absent", s |-> "", n |-> 0, b |-> FALSE]
JNull == [t |-> "null", s |-> "", n |-> 0, b |-> FALSE]
JStr(s) == [t |-> "str", s |-> s, n |-> 0, b |-> FALSE]
JNum(n) == [t |-> "num", s |-> "", n |-> n, b |-> FALSE]
JBool(b) == [t |-> "bool", s |-> "", n |-> 0, b |-> b]
JArr == [t |-> "arr", s |-> "", n |-> 0, b |-> FALSE]
JObj == [t |-> "obj", s |-> "", n |-> 0, b |-> FALSE]

\* Option<Vec<(String, String)>>
None == [some |-> FALSE, v |-> <<>>]
Some(v) == [some |-> TRUE, v |-> v]

StartsWith(s, p) == Len(s) >= Len(p) /\ SubSeq(s, 1, Len(p)) = p

-----------------------------------------------------------------------------
(* Wikipedia::new: the page sizes sent with every resource request *)

images_results == "max"
links_results == "max"
categories_results == "max"

Kinds == {"images", "references", "links", "langlinks", "categories"}

\* TitlePageId
Title(s) == [variant |-> "Title", s |-> s]
PageId(s) == [variant |-> "PageId", s |-> s]

\* the argument name of a title in the singular
query_paramSingular(id) ==
    IF id.variant = "Title" THEN <<"title", id.s>> ELSE <<"pageids", id.s>>

\* TitlePageId::query_param
query_param(id) ==
    IF id.variant = "Title" THEN <<"titles", id.s>> ELSE <<"pageids", id.s>>

-----------------------------------------------------------------------------
(* Raw JSON elements: an object with the fields the extractors read, or a  *)
(* value that is no object.                                                *)

NoInfo == [t |-> "absent", items |-> <<>>]
Info(url, durl) ==
    [t |-> "arr", items |-> <<[obj |-> TRUE, url |-> url, descriptionurl |-> durl]>>]
NoList == [field |-> "", t |-> "absent", items |-> <<>>]
List(field, items) == [field |-> field, t |-> "arr", items |-> items]

Obj(title, star, lang, imageinfo, list) ==
    [obj |-> TRUE, title |-> title, star |-> star, lang |-> lang,
     imageinfo |-> imageinfo, list |-> list]
NonObj ==
    [obj |-> FALSE, title |-> JAbsent, star |-> JAbsent, lang |-> JAbsent,
     imageinfo |-> NoInfo, list |-> NoList]

\* x.as_str(): Some(s) for a JSON string only
IsStr(j) == j.t = "str"

\* The typed items; one record shape for the five item types
NoItem ==
    [k |-> "", url |-> "", title |-> "", description_url |-> "", lang |-> "",
     has_title |-> FALSE]
SomeItem(item) == [r |-> "some", item |-> item]
NoneItem == [r |-> "none", item |-> NoItem]
PanicItem == [r |-> "panic", item |-> NoItem]

\* first element of imageinfo, as an object, then the string field f of it
InfoField(v, f) ==
    IF v.imageinfo.t = "arr" /\ Len(v.imageinfo.items) > 0
       /\ v.imageinfo.items[1].obj
    THEN v.imageinfo.items[1][f]
    ELSE JAbsent

UnwrapOr(j, d) == IF IsStr(j) THEN j.s ELSE d

\* Image::from_value
ImageFromValue(v) ==
    IF ~v.obj THEN NoneItem
    ELSE SomeItem([NoItem EXCEPT !.k = "Image",
                       !.title = UnwrapOr(v.title, ""),
                       !.url = UnwrapOr(InfoField(v, "url"), ""),
                       !.description_url = UnwrapOr(InfoField(v, "descriptionurl"), "")])

\* the prefix test made on "http" alone
ReferenceFromValueAnyHttp(v) ==
    IF ~v.obj \/ ~IsStr(v.star) THEN NoneItem
    ELSE SomeItem([NoItem EXCEPT !.k = "Reference",
                       !.url = IF StartsWith(v.star.s, "http") THEN v.star.s
                               ELSE "http:" \o v.star.s])

\* Reference::from_value
ReferenceFromValue(v) ==
    IF ~v.obj \/ ~IsStr(v.star) THEN NoneItem
    ELSE SomeItem([NoItem EXCEPT !.k = "Reference",
                       !.url = IF StartsWith(v.star.s, "http:") THEN v.star.s
                               ELSE "http:" \o v.star.s])

\* a missing title defaulted as Image::from_value does
LinkFromValueDefaultTitle(v) ==
    IF ~v.obj THEN NoneItem
    ELSE SomeItem([NoItem EXCEPT !.k = "Link", !.title = UnwrapOr(v.title, "")])

\* Link::from_value
LinkFromValue(v) ==
    IF ~v.obj \/ ~IsStr(v.title) THEN NoneItem
    ELSE SomeItem([NoItem EXCEPT !.k = "Link", !.title = v.title.s])

\* LangLink::from_value: `lang` is unwrapped twice, the title is optional
LangLinkFromValue(v) ==
    IF ~v.obj THEN NoneItem
    ELSE IF ~IsStr(v.lang) THEN PanicItem
    ELSE SomeItem([NoItem EXCEPT !.k = "LangLink", !.lang = v.lang.s,
                       !.has_title = IsStr(v.star),
                       !.title = IF IsStr(v.star) THEN v.star.s ELSE ""])

\* the prefix cut one character short: s[9..]
CategoryFromValueKeepsSpace(v) ==
    IF ~v.obj \/ ~IsStr(v.title) THEN NoneItem
    ELSE SomeItem([NoItem EXCEPT !.k = "Category",
                       !.title = IF StartsWith(v.title.s, "Category: ")
                                 THEN SubSeq(v.title.s, 10, Len(v.title.s))
                                 ELSE v.title.s])

\* Category::from_value
CategoryFromValue(v) ==
    IF ~v.obj \/ ~IsStr(v.title) THEN NoneItem
    ELSE SomeItem([NoItem EXCEPT !.k = "Category",
                       !.title = IF StartsWith(v.title.s, "Category: ")
                                 THEN SubSeq(v.title.s, 11, Len(v.title.s))
                                 ELSE v.title.s])

\* IterItem::from_value, by resource kind
from_value(k, v) ==
    CASE k = "images" -> ImageFromValue(v)
      [] k = "references" -> ReferenceFromValue(v)
      [] k = "links" -> LinkFromValue(v)
      [] k = "langlinks" -> LangLinkFromValue(v)
      [] k = "categories" -> CategoryFromValue(v)

-----------------------------------------------------------------------------
(* Requests and responses *)

\* the resource's own parameters, the leading arguments of cont!
ResourceParams(k) ==
    CASE k = "images" ->
            << <<"generator", "images">>, <<"gimlimit", images_results>>,
               <<"prop", "imageinfo">>, <<"iiprop", "url">> >>
      [] k = "references" ->
            << <<"prop", "extlinks">>, <<"ellimit", links_results>> >>
      [] k = "links" ->
            << <<"prop", "links">>, <<"plnamespace", "0">>,
               <<"ellimit", links_results>> >>
      [] k = "categories" ->
            << <<"prop", "categories">>, <<"cllimit", categories_results>> >>
      [] k = "langlinks" ->
            << <<"prop", "langlinks">>, <<"lllimit", links_results>> >>

\* the array field of the first page object that request_<resource> reads
ResourceField(k) ==
    CASE k = "references" -> "extlinks"
      [] k = "links" -> "links"
      [] k = "categories" -> "categories"
      [] k = "langlinks" -> "langlinks"
      [] k = "images" -> ""

\* cont! with the start marker pushed on every request
ContParamsKeepsMarker(k, id, c) ==
    ResourceParams(k)
    \o << <<"format", "json">>, <<"action", "query">>, query_param(id) >>
    \o (IF c.some THEN c.v ELSE <<>>)
    \o << <<"continue", "">> >>

\* cont!: the argument list handed to Wikipedia::query
ContParams(k, id, c) ==
    ResourceParams(k)
    \o << <<"format", "json">>, <<"action", "query">>, query_param(id) >>
    \o (IF c.some THEN c.v ELSE << <<"continue", "">> >>)

\* A response as the client and serde_json deliver it: status "http" (the
\* client failed), "json" (the body did not parse), or "ok" with the tree:
\* query (is `query` an object), pages (`query.pages`, when an object: its
\* values), continue (the top-level `continue` object: its entries).
Resp(status, query, pages, continue) ==
    [status |-> status, query |-> query, pages |-> pages, continue |-> continue]
NoPages == [present |-> FALSE, vals |-> <<>>]
Pages(vals) == [present |-> TRUE, vals |-> vals]
NoContinue == [present |-> FALSE, entries |-> <<>>]
Continue(entries) == [present |-> TRUE, entries |-> entries]

Ok(array, c) == [ok |-> TRUE, err |-> "", array |-> array, cont |-> c]
Err(e) == [ok |-> FALSE, err |-> e, array |-> <<>>, cont |-> None]

\* Wikipedia::query: the client's error becomes HTTPError, serde's JSONError
query(resp) ==
    CASE resp.status = "http" -> Err("HTTPError")
      [] resp.status = "json" -> Err("JSONError")
      [] OTHER -> Ok(<<>>, None)

\* booleans formatted as Rust prints them
ContValueBoolWords(j) ==
    CASE j.t = "null" -> [ok |-> TRUE, s |-> ""]
      [] j.t = "bool" -> [ok |-> TRUE, s |-> IF j.b THEN "true" ELSE "false"]
      [] j.t = "num" -> [ok |-> TRUE, s |-> ToString(j.n)]
      [] j.t = "str" -> [ok |-> TRUE, s |-> j.s]
      [] OTHER -> [ok |-> FALSE, s |-> ""]

\* one value of the continue object as a string; "" with ok FALSE on a shape error
ContValue(j) ==
    CASE j.t = "null" -> [ok |-> TRUE, s |-> ""]
      [] j.t = "bool" -> [ok |-> TRUE, s |-> IF j.b THEN "1" ELSE "0"]
      [] j.t = "num" -> [ok |-> TRUE, s |-> ToString(j.n)]
      [] j.t = "str" -> [ok |-> TRUE, s |-> j.s]
      [] OTHER -> [ok |-> FALSE, s |-> ""]

\* parse_cont leaving out the values it cannot turn into a string
parse_contLenient(resp) ==
    IF ~resp.continue.present THEN [ok |-> TRUE, err |-> "", array |-> <<>>, cont |-> None]
    ELSE LET e == SelectSeq(resp.continue.entries, LAMBDA x : ContValue(x.v).ok)
         IN [ok |-> TRUE, err |-> "", array |-> <<>>,
             cont |-> Some([i \in 1..Len(e) |-> <<e[i].k, ContValue(e[i].v).s>>])]

\* Page::parse_cont
parse_cont(resp) ==
    IF ~resp.continue.present THEN Ok(<<>>, None)
    ELSE LET e == resp.continue.entries
         IN IF \E i \in 1..Len(e) : ~ContValue(e[i].v).ok
            THEN Err("JSONPathError")
            ELSE Ok(<<>>, Some([i \in 1..Len(e) |-> <<e[i].k, ContValue(e[i].v).s>>]))

\* cont! taking a missing `query.pages` for an empty page of results
ContMacroPagesOptional(resp) ==
    LET q == query(resp)
    IN IF ~q.ok THEN q
       ELSE LET c == parse_cont(resp)
            IN IF ~c.ok THEN c
               ELSE Ok(IF resp.query /\ resp.pages.present THEN resp.pages.vals ELSE <<>>,
                       c.cont)

\* a cont! that treats a `continue` object it cannot read as no continuation
ContMacroDropsBadContinue(resp) ==
    LET q == query(resp)
    IN IF ~q.ok THEN q
       ELSE IF ~(resp.query /\ resp.pages.present) THEN Err("JSONPathError")
       ELSE LET c == parse_cont(resp)
            IN IF ~c.ok THEN Ok(resp.pages.vals, None) ELSE Ok(resp.pages.vals, c.cont)

\* cont!, after the argument list is built: query, `query.pages`, parse_cont
ContMacro(resp) ==
    LET q == query(resp)
    IN IF ~q.ok THEN q
       ELSE IF ~(resp.query /\ resp.pages.present) THEN Err("JSONPathError")
       ELSE LET c == parse_cont(resp)
            IN IF ~c.ok THEN c ELSE Ok(resp.pages.vals, c.cont)

\* a first-page lookup that keeps the token of a response without a page
FirstPageListKeepsToken(k, r) ==
    IF ~r.ok THEN r
    ELSE IF Len(r.array) = 0 THEN Ok(<<>>, r.cont)
    ELSE LET page == r.array[1]
         IN Ok(IF page.obj /\ page.list.t = "arr" /\ page.list.field = ResourceField(k)
               THEN page.list.items ELSE <<>>,
               r.cont)

\* request_extlinks / request_links / request_categories / request_langlinks:
\* the array field of the first page; without a page, no continuation either
FirstPageList(k, r) ==
    IF ~r.ok THEN r
    ELSE IF Len(r.array) = 0 THEN Ok(<<>>, None)
    ELSE LET page == r.array[1]
         IN Ok(IF page.obj /\ page.list.t = "arr" /\ page.list.field = ResourceField(k)
               THEN page.list.items ELSE <<>>,
               r.cont)

\* IterItem::request_next once the response is in
request_next(k, resp) ==
    IF k = "images" THEN ContMacro(resp) ELSE FirstPageList(k, ContMacro(resp))


-----------------------------------------------------------------------------
(* The inputs: page identifiers, raw elements, continue objects, responses *)

Idents == {Title("World"), PageId("42")}

ElemFull ==
    Obj(JStr("Category: World"), JStr("//example.com/reference1.html"), JStr("es"),
        Info(JStr("http://example.com/image1.jpg"),
             JStr("http://example.com/image1.jpg.html")), NoList)
ElemPlain ==
    Obj(JStr("Hello"), JStr("http://example.com/reference2.html"), JStr("fr"),
        Info(JStr("http://example.com/image2.jpg"),
             JStr("http://example.com/image2.jpg.html")), NoList)
\* an object without any of the fields: {}
ElemBare == Obj(JAbsent, JAbsent, JAbsent, NoInfo, NoList)

\* the element arrays a page of results may hold
ElemArrays ==
    { <<>>, <<ElemFull>>, <<ElemPlain, ElemFull>>, <<ElemBare, ElemPlain>> }

\* the `continue` objects parse_cont accepts
Continues ==
    { NoContinue,
      Continue(<<[k |-> "lol", v |-> JStr("1")]>>),
      Continue(<<[k |-> "continue", v |-> JStr("||")],
                 [k |-> "offset", v |-> JNum(5)]>>) }

\* a `continue` object with a value parse_cont rejects
BadContinue == Continue(<<[k |-> "bad", v |-> JArr]>>)

\* a `continue` object with an object for a value
ObjContinue == Continue(<<[k |-> "lol", v |-> JStr("2")], [k |-> "bad", v |-> JObj]>>)

\* a `continue` object with a null value
NullContinue == Continue(<<[k |-> "nul", v |-> JNull]>>)

\* a `continue` object with booleans and a number of several digits
TypedContinue ==
    Continue(<<[k |-> "done", v |-> JBool(TRUE)], [k |-> "more", v |-> JBool(FALSE)],
               [k |-> "n", v |-> JNum(120)]>>)

\* a page object with the resource's array field
PageWith(k, a) == Obj(JStr("World"), JAbsent, JAbsent, NoInfo, List(ResourceField(k), a))

\* the values of `query.pages` for a resource: for images the elements are the
\* pages themselves; otherwise the first page carries them in its array field
PagesOf(k) ==
    IF k = "images" THEN {Pages(a) : a \in ElemArrays}
    ELSE {Pages(<<>>), Pages(<<ElemBare>>)}
         \cup {Pages(<<PageWith(k, a)>>) : a \in ElemArrays}

Responses(k) ==
    { Resp("http", FALSE, NoPages, NoContinue),
      Resp("json", FALSE, NoPages, NoContinue),
      Resp("ok", FALSE, NoPages, NoContinue),
      Resp("ok", TRUE, NoPages, Continue(<<[k |-> "lol", v |-> JStr("1")]>>)),
      Resp("ok", TRUE, Pages(<<IF k = "images" THEN ElemFull
                               ELSE PageWith(k, <<ElemFull>>)>>), BadContinue) }
    \cup {Resp("ok", TRUE, p, c) : p \in PagesOf(k), c \in Continues}

\* responses with one element each and every shape of `continue` object
TokenResponses(k) ==
    {Resp("ok", TRUE, Pages(<<IF k = "images" THEN e ELSE PageWith(k, <<e>>)>>), c) :
        e \in {ElemFull, ElemPlain},
        c \in Continues \cup {BadContinue, ObjContinue, NullContinue, TypedContinue}}

\* what the server may answer, by the repertoire it was given
Served(k, repertoire) == IF repertoire = "tokens" THEN TokenResponses(k) ELSE Responses(k)

-----------------------------------------------------------------------------
(* Results of the single-item operations: Result<String> and              *)
(* Result<Option<(f64, f64)>> in one record shape                         *)

NoResult == [ok |-> FALSE, err |-> "", s |-> "", some |-> FALSE, lat |-> 0, lon |-> 0]
OkStr(s) == [NoResult EXCEPT !.ok = TRUE, !.s = s, !.some = TRUE]
OkNone == [NoResult EXCEPT !.ok = TRUE]
OkCoord(lat, lon) == [NoResult EXCEPT !.ok = TRUE, !.some = TRUE, !.lat = lat, !.lon = lon]
Fail(e) == [NoResult EXCEPT !.err = e]

-----------------------------------------------------------------------------
(* The iterator *)

\* what a next() call returned: Some(item), None, or the call panicked
Item(i) == [r |-> "item", item |-> i]
End == [r |-> "end", item |-> NoItem]
Panic == [r |-> "panic", item |-> NoItem]

\* Option<B> of from_value as the return value of next()
Returned(x) ==
    CASE x.r = "some" -> Item(x.item)
      [] x.r = "none" -> End
      [] OTHER -> Panic

\* a pop from the back of the buffer
PopBack(k, buf) ==
    IF Len(buf) = 0 THEN [inner |-> buf, ret |-> End]
    ELSE [inner |-> SubSeq(buf, 1, Len(buf) - 1),
          ret |-> Returned(from_value(k, buf[Len(buf)]))]

\* self.inner.next().and_then(from_value): the new buffer and the value
Pop(k, buf) ==
    IF Len(buf) = 0 THEN [inner |-> buf, ret |-> End]
    ELSE [inner |-> Tail(buf), ret |-> Returned(from_value(k, buf[1]))]

\* a fetch_next that forgets the token when the fetch fails
fetch_nextDropsToken(k, buf, c, resp) ==
    LET r == request_next(k, resp)
    IN IF r.ok THEN [ok |-> TRUE, inner |-> r.array, cont |-> r.cont]
       ELSE [ok |-> FALSE, inner |-> buf, cont |-> None]

\* Iter::fetch_next with the response of its request: the new (inner, cont)
fetch_next(k, buf, c, resp) ==
    LET r == request_next(k, resp)
    IN IF r.ok THEN [ok |-> TRUE, inner |-> r.array, cont |-> r.cont]
       ELSE [ok |-> FALSE, inner |-> buf, cont |-> c]

\* no single-item call is made
PageIdle ==
    /\ op = ""
    /\ origin = Title("")
    /\ self = Title("")
    /\ pc = "idle"
    /\ result = NoResult
    /\ preqs = <<>>
    /\ presps = <<>>
    /\ srv = <<>>
    /\ calls = <<>>

\* no iterator is made
IterIdle ==
    /\ kind = "images"
    /\ ident = Title("")
    /\ phase = "off"
    /\ inner = <<>>
    /\ cont = None
    /\ newErr = ""
    /\ reqs = <<>>
    /\ resps = <<>>
    /\ outs = <<>>
    /\ served = "pages"

\* from_value is not applied on its own
ExtractIdle ==
    /\ ekind = "images"
    /\ raws = <<>>
    /\ gots = <<>>

\* the url format is the one Wikipedia::new sets, and no one changes it
UrlIdle ==
    /\ pre_language_url = "https://"
    /\ language = "en"
    /\ post_language_url = ".wikipedia.org/w/api.php"
    /\ format = "https://{language}.wikipedia.org/w/api.php"
    /\ uops = <<>>

\* no pair of iterators is constructed
TwoIdle ==
    /\ its = <<>>
    /\ wire = <<>>
    /\ web = <<>>

Init ==
    /\ kind \in Kinds
    /\ ident \in Idents
    /\ phase = "init"
    /\ inner = <<>>
    /\ cont = None
    /\ newErr = ""
    /\ reqs = <<>>
    /\ resps = <<>>
    /\ outs = <<>>
    /\ served = "pages"
    /\ PageIdle
    /\ ExtractIdle
    /\ UrlIdle
    /\ TwoIdle

\* the same iterator before Iter::new, the server answering with every shape
\* of `continue` object
InitCont ==
    /\ kind \in Kinds
    /\ ident \in Idents
    /\ phase = "init"
    /\ inner = <<>>
    /\ cont = None
    /\ newErr = ""
    /\ reqs = <<>>
    /\ resps = <<>>
    /\ outs = <<>>
    /\ served = "tokens"
    /\ PageIdle
    /\ ExtractIdle
    /\ UrlIdle
    /\ TwoIdle

\* Iter::new (Page::get_images, get_references, ...): the first fetch, eagerly
IterNew ==
    /\ phase = "init"
    /\ \E resp \in Served(kind, served) :
         LET r == request_next(kind, resp)
         IN /\ reqs' = Append(reqs, ContParams(kind, ident, None))
            /\ resps' = Append(resps, resp)
            /\ IF r.ok
               THEN /\ phase' = "iter"
                    /\ inner' = r.array
                    /\ cont' = r.cont
                    /\ newErr' = ""
               ELSE /\ phase' = "err"
                    /\ newErr' = r.err
                    /\ UNCHANGED <<inner, cont>>
    /\ UNCHANGED <<kind, ident, outs, served>>
    /\ UNCHANGED <<pgVars, exVars, urlVars, twoVars>>

\* the common end of a next() call: the value is returned, or the call panics;
\* the log keeps, with the value, how many requests had been issued by then
Return(p, n) ==
    /\ inner' = p.inner
    /\ outs' = Append(outs, [r |-> p.ret.r, item |-> p.ret.item, nreq |-> n])
    /\ phase' = IF p.ret.r = "panic" THEN "panic" ELSE phase

\* next(), first arm: the buffer holds an element
NextBuffered ==
    /\ phase = "iter"
    /\ Len(outs) < MaxCalls
    /\ Len(inner) > 0
    /\ Return(Pop(kind, inner), Len(reqs))
    /\ UNCHANGED <<kind, ident, cont, newErr, reqs, resps, served>>
    /\ UNCHANGED <<pgVars, exVars, urlVars, twoVars>>

\* next(), buffer empty and a continuation held: one fetch, then one pop
NextRefill ==
    /\ phase = "iter"
    /\ Len(outs) < MaxCalls
    /\ Len(inner) = 0
    /\ cont.some
    /\ Len(reqs) < MaxFetch
    /\ \E resp \in Served(kind, served) :
         LET f == fetch_next(kind, inner, cont, resp)
         IN /\ reqs' = Append(reqs, ContParams(kind, ident, cont))
            /\ resps' = Append(resps, resp)
            /\ cont' = f.cont
            /\ IF f.ok THEN Return(Pop(kind, f.inner), Len(reqs) + 1)
               ELSE Return([inner |-> f.inner, ret |-> End], Len(reqs) + 1)
    /\ UNCHANGED <<kind, ident, newErr, served>>
    /\ UNCHANGED <<pgVars, exVars, urlVars, twoVars>>

\* next() fetching whenever the buffer is empty: without a token the request
\* is the first one again
NextExhaustedRestarts ==
    /\ phase = "iter"
    /\ Len(outs) < MaxCalls
    /\ Len(inner) = 0
    /\ ~cont.some
    /\ Len(reqs) < MaxFetch
    /\ \E resp \in Served(kind, served) :
         LET f == fetch_next(kind, inner, cont, resp)
         IN /\ reqs' = Append(reqs, ContParams(kind, ident, cont))
            /\ resps' = Append(resps, resp)
            /\ cont' = f.cont
            /\ IF f.ok THEN Return(Pop(kind, f.inner), Len(reqs) + 1)
               ELSE Return([inner |-> f.inner, ret |-> End], Len(reqs) + 1)
    /\ UNCHANGED <<kind, ident, newErr, served>>
    /\ UNCHANGED <<pgVars, exVars, urlVars, twoVars>>

\* next(), buffer empty and no continuation
NextExhausted ==
    /\ phase = "iter"
    /\ Len(outs) < MaxCalls
    /\ Len(inner) = 0
    /\ ~cont.some
    /\ Return([inner |-> inner, ret |-> End], Len(reqs))
    /\ UNCHANGED <<kind, ident, cont, newErr, reqs, resps, served>>
    /\ UNCHANGED <<pgVars, exVars, urlVars, twoVars>>

Next == IterNew \/ NextBuffered \/ NextRefill \/ NextExhausted

Spec == Init /\ [][Next]_vars

SpecCont == InitCont /\ [][Next]_vars


-----------------------------------------------------------------------------
(* The single-item operations of Page and their redirect resolution *)

Ops == {"get_content", "get_summary", "get_html_content", "get_coordinates",
        "get_pageid", "get_title"}

\* the argument list of an operation's query, before the page identifier
OpParams(o) ==
    CASE o \in {"get_pageid", "get_title"} ->
            << <<"prop", "info|pageprops">>, <<"inprop", "url">>,
               <<"ppprop", "disambiguation">>, <<"redirects", "">>,
               <<"format", "json">>, <<"action", "query">> >>
      [] o = "get_content" ->
            << <<"prop", "extracts|revisions">>, <<"explaintext", "">>,
               <<"rvprop", "ids">>, <<"redirects", "">>,
               <<"format", "json">>, <<"action", "query">> >>
      [] o = "get_html_content" ->
            << <<"prop", "revisions">>, <<"rvprop", "content">>, <<"rvlimit", "1">>,
               <<"rvparse", "">>, <<"redirects", "">>,
               <<"format", "json">>, <<"action", "query">> >>
      [] o = "get_summary" ->
            << <<"prop", "extracts">>, <<"explaintext", "">>, <<"exintro", "">>,
               <<"redirects", "">>, <<"format", "json">>, <<"action", "query">> >>
      [] o = "get_coordinates" ->
            << <<"prop", "coordinates">>, <<"colimit", "max">>, <<"redirects", "">>,
               <<"format", "json">>, <<"action", "query">> >>

OpRequest(o, id) == OpParams(o) \o <<query_param(id)>>

\* A page object of `query.pages`, with the fields the operations read
NoArr == [t |-> "absent", items |-> <<>>]
Arr(items) == [t |-> "arr", items |-> items]
PageObj(extract, title, revisions, coordinates) ==
    [obj |-> TRUE, extract |-> extract, title |-> title,
     revisions |-> revisions, coordinates |-> coordinates]
Revision(star) == [obj |-> TRUE, star |-> star]
Coordinate(lat, lon) == [obj |-> TRUE, lat |-> lat, lon |-> lon]

\* A response to a single-item query: status as for Resp, query (is `query`
\* an object), redirects (`query.redirects`), pages (`query.pages`, when an
\* object: its entries, key and page object, in map order)
SResp(status, q, redirects, pages) ==
    [status |-> status, query |-> q, redirects |-> redirects, pages |-> pages]
NoEntries == [present |-> FALSE, entries |-> <<>>]
Entries(e) == [present |-> TRUE, entries |-> e]
RedirectElem(to) == [obj |-> TRUE, to |-> to]

\* Option<String>
NoString == [some |-> FALSE, s |-> ""]
SomeString(s) == [some |-> TRUE, s |-> s]

\* a redirect lookup that takes the first element holding a string `to`
redirectAnyElement(resp) ==
    IF resp.query /\ resp.redirects.t = "arr"
       /\ \E m \in 1..Len(resp.redirects.items) :
             resp.redirects.items[m].obj /\ IsStr(resp.redirects.items[m].to)
    THEN LET m == CHOOSE m \in 1..Len(resp.redirects.items) :
                      /\ resp.redirects.items[m].obj /\ IsStr(resp.redirects.items[m].to)
                      /\ \A n \in 1..(m - 1) :
                             ~(resp.redirects.items[n].obj
                               /\ IsStr(resp.redirects.items[n].to))
         IN SomeString(resp.redirects.items[m].to.s)
    ELSE NoString

\* Page::redirect: the `to` of the first element of `query.redirects`
redirect(resp) ==
    IF resp.query /\ resp.redirects.t = "arr" /\ Len(resp.redirects.items) > 0
       /\ resp.redirects.items[1].obj /\ IsStr(resp.redirects.items[1].to)
    THEN SomeString(resp.redirects.items[1].to.s)
    ELSE NoString

\* Page::get_first_page: the value under the first key of `query.pages`
NoPage == [obj |-> FALSE, extract |-> JAbsent, title |-> JAbsent,
           revisions |-> NoArr, coordinates |-> NoArr]
get_first_page(resp) ==
    IF resp.query /\ resp.pages.present /\ Len(resp.pages.entries) > 0
    THEN [some |-> TRUE, page |-> resp.pages.entries[1].page]
    ELSE [some |-> FALSE, page |-> NoPage]

\* .and_then(|x| x.as_str()).ok_or(Error::JSONPathError), with an empty default instead
StrOrEmpty(j) == IF IsStr(j) THEN OkStr(j.s) ELSE OkStr("")

\* .and_then(|x| x.as_str()).ok_or(Error::JSONPathError)
StrOrPathError(j) == IF IsStr(j) THEN OkStr(j.s) ELSE Fail("JSONPathError")

\* x.get(f) on the first page as an object
FirstPageField(resp, f) ==
    LET p == get_first_page(resp)
    IN IF p.some /\ p.page.obj THEN p.page[f] ELSE JAbsent

\* the first element of an array field of the first page, as an object
FirstOf(resp, f) ==
    LET p == get_first_page(resp)
    IN IF p.some /\ p.page.obj /\ p.page[f].t = "arr" /\ Len(p.page[f].items) > 0
          /\ p.page[f].items[1].obj
       THEN [some |-> TRUE, v |-> p.page[f].items[1]]
       ELSE [some |-> FALSE, v |-> [obj |-> FALSE]]

\* the end of each operation: the field it extracts from a response that
\* reports no redirect
Extract(o, resp) ==
    CASE o \in {"get_content", "get_summary"} ->
            StrOrPathError(FirstPageField(resp, "extract"))
      [] o = "get_html_content" ->
            LET r == FirstOf(resp, "revisions")
            IN StrOrPathError(IF r.some THEN r.v.star ELSE JAbsent)
      [] o = "get_coordinates" ->
            LET c == FirstOf(resp, "coordinates")
            IN IF ~c.some THEN OkNone
               ELSE IF c.v.lat.t # "num" \/ c.v.lon.t # "num" THEN Fail("JSONPathError")
               ELSE OkCoord(c.v.lat.n, c.v.lon.n)
      [] o = "get_pageid" ->
            IF resp.query /\ resp.pages.present /\ Len(resp.pages.entries) > 0
            THEN OkStr(resp.pages.entries[1].key)
            ELSE Fail("JSONPathError")
      [] o = "get_title" ->
            IF resp.query /\ resp.pages.present /\ Len(resp.pages.entries) > 0
            THEN LET pg == resp.pages.entries[1].page
                 IN StrOrPathError(IF pg.obj THEN pg.title ELSE JAbsent)
            ELSE Fail("JSONPathError")

\* What an operation does with a reported redirect to r: get_title returns r,
\* the others re-invoke themselves on Page::from_title(r)
Returns(res) == [done |-> TRUE, result |-> res, self |-> Title("")]
Recurses(id) == [done |-> FALSE, result |-> NoResult, self |-> id]

\* get_pageid returning the target as get_title does
OnRedirectPageidReturns(o, r) ==
    IF o \in {"get_title", "get_pageid"} THEN Returns(OkStr(r)) ELSE Recurses(Title(r))

\* the recursion on Page::from_pageid(r)
OnRedirectById(o, r) ==
    IF o = "get_title" THEN Returns(OkStr(r)) ELSE Recurses(PageId(r))

\* a redirect reported as an error instead of followed
OnRedirectRefused(o, r) ==
    IF o = "get_title" THEN Returns(OkStr(r)) ELSE Returns(Fail("RedirectCycle"))

OnRedirect(o, r) ==
    IF o = "get_title" THEN Returns(OkStr(r)) ELSE Recurses(Title(r))

\* the two operations answering from the identifier whatever its variant
ImmediateForAnyIdentifier(o, id) == o \in {"get_pageid", "get_title"}

\* the arms of get_pageid and get_title that answer from the identifier
Immediate(o, id) ==
    \/ o = "get_pageid" /\ id.variant = "PageId"
    \/ o = "get_title" /\ id.variant = "Title"

\* one activation of an operation once its response is in: return or recurse
Respond(o, resp) ==
    IF ~query(resp).ok THEN Returns(Fail(query(resp).err))
    ELSE IF redirect(resp).some THEN OnRedirect(o, redirect(resp).s)
    ELSE Returns(Extract(o, resp))

-----------------------------------------------------------------------------
(* The inputs of the single-item operations *)

PTitles == {"A", "B", "C"}
PIdents == {Title(t) : t \in PTitles} \cup {PageId("7")}

PageHello ==
    PageObj(JStr("hello"), JStr("Hello"), Arr(<<Revision(JStr("<p>hello</p>"))>>),
            Arr(<<Coordinate(JNum(2), JNum(-1))>>))
PageWorld ==
    PageObj(JStr("world"), JStr("World"), Arr(<<Revision(JStr("<p>world</p>"))>>),
            Arr(<<Coordinate(JNum(40), JNum(-73))>>))
\* {}: none of the fields
PageBare == PageObj(JAbsent, JAbsent, NoArr, NoArr)
\* a coordinate without `lon`, a revision without `*`, a title that is a number
PagePartial ==
    PageObj(JAbsent, JNum(5), Arr(<<Revision(JAbsent)>>),
            Arr(<<Coordinate(JNum(2), JAbsent)>>))

Entry(key, pg) == [key |-> key, page |-> pg]

SResponses ==
    { SResp("http", FALSE, NoArr, NoEntries),
      SResp("json", FALSE, NoArr, NoEntries),
      SResp("ok", FALSE, NoArr, NoEntries),
      SResp("ok", TRUE, NoArr, NoEntries),
      SResp("ok", TRUE, NoArr, Entries(<<>>)),
      SResp("ok", TRUE, NoArr, Entries(<<Entry("11", PageHello)>>)),
      SResp("ok", TRUE, NoArr, Entries(<<Entry("12", PageWorld)>>)),
      SResp("ok", TRUE, NoArr, Entries(<<Entry("13", PageBare)>>)),
      SResp("ok", TRUE, NoArr, Entries(<<Entry("14", PagePartial)>>)),
      SResp("ok", TRUE, Arr(<<RedirectElem(JStr("B"))>>),
            Entries(<<Entry("11", PageHello)>>)),
      SResp("ok", TRUE, Arr(<<>>), Entries(<<Entry("12", PageWorld)>>)),
      SResp("ok", TRUE, Arr(<<RedirectElem(JAbsent), RedirectElem(JStr("B"))>>),
            Entries(<<Entry("11", PageHello)>>)) }
    \cup {SResp("ok", TRUE, Arr(<<RedirectElem(JStr(t))>>), NoEntries) : t \in PTitles}

\* the server answers the same page the same way every time
Known(id) == \E i \in 1..Len(srv) : srv[i].id = id
Answer(id) == srv[CHOOSE i \in 1..Len(srv) : srv[i].id = id].resp
Answers(id) == IF Known(id) THEN {Answer(id)} ELSE SResponses

InitPage ==
    /\ IterIdle
    /\ ExtractIdle
    /\ UrlIdle
    /\ TwoIdle
    /\ op \in Ops
    /\ origin \in PIdents
    /\ self = origin
    /\ pc = "call"
    /\ result = NoResult
    /\ preqs = <<>>
    /\ presps = <<>>
    /\ srv = <<>>
    /\ calls = <<>>

\* an operation is entered on `self` and answers from the identifier
ReturnImmediately ==
    /\ pc = "call"
    /\ Immediate(op, self)
    /\ result' = OkStr(self.s)
    /\ pc' = "done"
    /\ UNCHANGED <<op, origin, self, preqs, presps, srv, calls>>
    /\ UNCHANGED <<itVars, exVars, urlVars, twoVars>>

\* an operation is entered on `self`, sends its query, and returns the error,
\* returns the extracted field, or re-invokes itself on the redirect target
Activate ==
    /\ pc = "call"
    /\ ~Immediate(op, self)
    /\ Len(preqs) < MaxHops
    /\ \E resp \in Answers(self) :
         LET a == Respond(op, resp)
         IN /\ preqs' = Append(preqs, OpRequest(op, self))
            /\ presps' = Append(presps, resp)
            /\ srv' = IF Known(self) THEN srv
                      ELSE Append(srv, [id |-> self, resp |-> resp])
            /\ IF a.done
               THEN /\ result' = a.result
                    /\ pc' = "done"
                    /\ self' = self
               ELSE /\ self' = a.self
                    /\ pc' = "call"
                    /\ result' = result
    /\ UNCHANGED <<op, origin, calls>>
    /\ UNCHANGED <<itVars, exVars, urlVars, twoVars>>

\* after a call whose first response reported a redirect to X: the caller
\* invokes the same operation on a fresh page built from title X
InvokeOnTarget ==
    /\ pc = "done"
    /\ calls = <<>>
    /\ Len(presps) > 0
    /\ redirect(presps[1]).some
    /\ calls' = <<[origin |-> origin, result |-> result, reqs |-> preqs,
                   resps |-> presps]>>
    /\ origin' = Title(redirect(presps[1]).s)
    /\ self' = Title(redirect(presps[1]).s)
    /\ pc' = "call"
    /\ result' = NoResult
    /\ preqs' = <<>>
    /\ presps' = <<>>
    /\ UNCHANGED <<op, srv>>
    /\ UNCHANGED <<itVars, exVars, urlVars, twoVars>>

NextPage == ReturnImmediately \/ Activate \/ InvokeOnTarget

SpecPage == InitPage /\ [][NextPage]_vars

-----------------------------------------------------------------------------
(* The extractors on their own: from_value applied to one raw element, and *)
(* to the element a server would hold for the item it returned.           *)

RawTitles ==
    { JAbsent, JNum(5), JStr(""), JStr("Foo"), JStr("Category: Foo"),
      JStr("Category: Category: Foo"), JStr("Category:Foo"), JStr("category: Foo"),
      JStr("Category: "), JStr("A Category: Foo") }

RawStars ==
    { JAbsent, JNum(5), JStr(""), JStr("//example.com/x"), JStr("http://example.com/x"),
      JStr("https://example.com/x"), JStr("http:"), JStr("HTTP://example.com/x"),
      JStr("example.com/http:") }

RawLangs == { JAbsent, JStr("es") }

\* imageinfo: absent, an empty array, a first element that is no object, an
\* object with both urls, with one of them, with a url that is no string
RawInfos ==
    { NoInfo,
      [t |-> "arr", items |-> <<>>],
      [t |-> "arr", items |-> <<[obj |-> FALSE, url |-> JAbsent, descriptionurl |-> JAbsent]>>],
      Info(JStr("http://example.com/image1.jpg"), JStr("http://example.com/image1.jpg.html")),
      Info(JAbsent, JStr("http://example.com/image1.jpg.html")),
      Info(JNum(5), JAbsent) }

RawElems ==
    {NonObj} \cup {Obj(t, s, l, i, NoList) :
                      t \in RawTitles, s \in RawStars, l \in RawLangs, i \in RawInfos}

\* the raw element that holds exactly the fields of an item
AsRaw(it) ==
    Obj(IF it.k \in {"Image", "Link", "Category"} THEN JStr(it.title) ELSE JAbsent,
        CASE it.k = "Reference" -> JStr(it.url)
          [] it.k = "LangLink" /\ it.has_title -> JStr(it.title)
          [] OTHER -> JAbsent,
        IF it.k = "LangLink" THEN JStr(it.lang) ELSE JAbsent,
        IF it.k = "Image" THEN Info(JStr(it.url), JStr(it.description_url)) ELSE NoInfo,
        NoList)

InitItem ==
    /\ IterIdle
    /\ PageIdle
    /\ UrlIdle
    /\ TwoIdle
    /\ ekind \in Kinds
    /\ \E e \in RawElems : raws = <<e>>
    /\ gots = <<>>

\* B::from_value(&v) on the element handed in last
ExtractItem ==
    /\ Len(gots) < Len(raws)
    /\ gots' = Append(gots, from_value(ekind, raws[Len(gots) + 1]))
    /\ UNCHANGED <<ekind, raws>>
    /\ UNCHANGED <<itVars, pgVars, urlVars, twoVars>>

\* the item returned is handed in again, as the element that holds its fields
Resubmit ==
    /\ Len(gots) = Len(raws)
    /\ Len(raws) < MaxRounds
    /\ gots[Len(gots)].r = "some"
    /\ raws' = Append(raws, AsRaw(gots[Len(gots)].item))
    /\ UNCHANGED <<ekind, gots>>
    /\ UNCHANGED <<itVars, pgVars, urlVars, twoVars>>

NextItem == ExtractItem \/ Resubmit

SpecItem == InitItem /\ [][NextItem]_vars

-----------------------------------------------------------------------------
(* The url format of Wikipedia: the public field `language`, set_base_url  *)
(* and base_url                                                            *)

LANGUAGE_URL_MARKER == "{language}"

\* str::find: the index (from 0) of the first occurrence of m in s
Find(s, m) ==
    LET at == {i \in 0..(Len(s) - Len(m)) : SubSeq(s, i + 1, i + Len(m)) = m}
    IN IF at = {} THEN [some |-> FALSE, i |-> 0]
       ELSE [some |-> TRUE, i |-> CHOOSE i \in at : \A j \in at : i <= j]

\* Wikipedia::base_url
base_url(pre, lang, post) == pre \o lang \o post

\* Wikipedia::set_base_url: the new (pre_language_url, language, post_language_url)
set_base_url(lang, url) ==
    LET index == Find(url, LANGUAGE_URL_MARKER)
    IN IF ~index.some
       THEN [pre |-> url, language |-> "", post |-> ""]
       ELSE [pre |-> SubSeq(url, 1, index.i),
             language |-> lang,
             post |-> SubSeq(url, index.i + Len(LANGUAGE_URL_MARKER) + 1, Len(url))]

Languages == {"en", "es", "simple"}

Formats ==
    { "https://{language}.wikipedia.org/w/api.php",
      "https://hello.{language}.world/",
      "https://hello.world/",
      "{language}" }

InitUrl ==
    /\ IterIdle
    /\ PageIdle
    /\ ExtractIdle
    /\ UrlIdle
    /\ TwoIdle

\* wikipedia.language = l
SetLanguage ==
    /\ Len(uops) < MaxOps
    /\ \E l \in Languages :
          /\ language' = l
          /\ uops' = Append(uops, [op |-> "language", arg |-> l])
    /\ UNCHANGED <<pre_language_url, post_language_url, format>>
    /\ UNCHANGED <<itVars, pgVars, exVars, twoVars>>

\* wikipedia.set_base_url(u)
SetBaseUrl ==
    /\ Len(uops) < MaxOps
    /\ \E u \in Formats :
          LET w == set_base_url(language, u)
          IN /\ pre_language_url' = w.pre
             /\ language' = w.language
             /\ post_language_url' = w.post
             /\ format' = u
             /\ uops' = Append(uops, [op |-> "set_base_url", arg |-> u])
    /\ UNCHANGED <<itVars, pgVars, exVars, twoVars>>

NextUrl == SetLanguage \/ SetBaseUrl

SpecUrl == InitUrl /\ [][NextUrl]_vars

-----------------------------------------------------------------------------
(* Several operations on one page: every method of Page takes `&self` and  *)
(* none assigns a field, so each call starts from the identifier the page  *)
(* was built with. The server keeps answering each page the same way.      *)

MaxRepeats == 1

\* a repeated call that starts from the identifier the last call resolved
InvokeAgainOnResolved ==
    /\ pc = "done"
    /\ Len(calls) < MaxRepeats
    /\ calls' = Append(calls, [op |-> op, origin |-> origin, result |-> result,
                               reqs |-> preqs, resps |-> presps])
    /\ op' \in Ops
    /\ self' = self
    /\ pc' = "call"
    /\ result' = NoResult
    /\ preqs' = <<>>
    /\ presps' = <<>>
    /\ UNCHANGED <<origin, srv>>
    /\ UNCHANGED <<itVars, exVars, urlVars, twoVars>>

\* the caller invokes an operation on the page of the call that returned
InvokeAgain ==
    /\ pc = "done"
    /\ Len(calls) < MaxRepeats
    /\ calls' = Append(calls, [op |-> op, origin |-> origin, result |-> result,
                               reqs |-> preqs, resps |-> presps])
    /\ op' \in Ops
    /\ self' = origin
    /\ pc' = "call"
    /\ result' = NoResult
    /\ preqs' = <<>>
    /\ presps' = <<>>
    /\ UNCHANGED <<origin, srv>>
    /\ UNCHANGED <<itVars, exVars, urlVars, twoVars>>

NextRepeat == ReturnImmediately \/ Activate \/ InvokeAgain

SpecRepeat == InitPage /\ [][NextRepeat]_vars

-----------------------------------------------------------------------------
(* Two iterators of one client. Each Iter owns its buffer and its token    *)
(* and borrows the page, whose identifier it only reads; next() takes      *)
(* `&mut self`, so calls interleave whole. The client is shared: every     *)
(* request goes over the same wire to a server that answers a request the  *)
(* same way every time.                                                    *)

MaxTwoFetch == 3
MaxTwoCalls == 3

TwoKinds == {"images", "categories"}

\* what the server may answer a request for a resource
TwoResponses(k) ==
    LET page(a) == Pages(IF k = "images" THEN a ELSE <<PageWith(k, a)>>)
    IN { Resp("http", FALSE, NoPages, NoContinue),
         Resp("ok", TRUE, page(<<ElemFull>>), Continue(<<[k |-> "lol", v |-> JStr("1")]>>)),
         Resp("ok", TRUE, page(<<ElemPlain>>),
              Continue(<<[k |-> "continue", v |-> JStr("||")],
                         [k |-> "offset", v |-> JNum(5)]>>)),
         Resp("ok", TRUE, page(<<ElemFull, ElemPlain>>), NoContinue) }

WebKnown(req) == \E i \in 1..Len(web) : web[i].req = req
WebAnswer(req) ==
    IF WebKnown(req) THEN web[CHOOSE i \in 1..Len(web) : web[i].req = req].resp
    ELSE Resp("http", FALSE, NoPages, NoContinue)
WebAnswers(k, req) == IF WebKnown(req) THEN {WebAnswer(req)} ELSE TwoResponses(k)

\* an Iter about to be constructed for a resource of a page
Fresh(k, id) ==
    [kind |-> k, ident |-> id, phase |-> "init", inner |-> <<>>, cont |-> None,
     reqs |-> <<>>, outs |-> <<>>]

\* Iter::new, given the response to its request
Constructed(it, resp) ==
    LET r == request_next(it.kind, resp)
        sent == Append(it.reqs, ContParams(it.kind, it.ident, None))
    IN IF r.ok
       THEN [it EXCEPT !.phase = "iter", !.inner = r.array, !.cont = r.cont,
                       !.reqs = sent]
       ELSE [it EXCEPT !.phase = "err", !.reqs = sent]

\* the request a next() call has to send, given the token c it finds
Due(it, c) == it.inner = <<>> /\ c.some

\* next() finding token c; resp answers its request when one is due
Called(it, c, resp) ==
    LET f == fetch_next(it.kind, it.inner, c, resp)
        p == IF Len(it.inner) > 0 THEN Pop(it.kind, it.inner)
             ELSE IF ~c.some THEN [inner |-> it.inner, ret |-> End]
             ELSE IF f.ok THEN Pop(it.kind, f.inner)
             ELSE [inner |-> f.inner, ret |-> End]
    IN [it EXCEPT !.inner = p.inner,
                  !.cont = IF Due(it, c) THEN f.cont ELSE c,
                  !.reqs = IF Due(it, c)
                           THEN Append(@, ContParams(it.kind, it.ident, c)) ELSE @,
                  !.outs = Append(@, p.ret),
                  !.phase = IF p.ret.r = "panic" THEN "panic" ELSE @]

\* a token kept with the borrowed page: the one the last fetch of either
\* iterator left
HeldByPage(x) ==
    IF wire = <<>> THEN its[x].cont ELSE its[wire[Len(wire)].it].cont

\* Iter.cont: the token iterator x holds
Held(x) == its[x].cont

InitTwo ==
    /\ IterIdle
    /\ PageIdle
    /\ ExtractIdle
    /\ UrlIdle
    /\ \E k1 \in TwoKinds, k2 \in TwoKinds, id2 \in Idents :
          its = <<Fresh(k1, Title("World")), Fresh(k2, id2)>>
    /\ wire = <<>>
    /\ web = <<>>

\* the shared client sends a request of iterator x and the server answers
Send(x, req, resp) ==
    /\ wire' = Append(wire, [it |-> x, req |-> req])
    /\ web' = IF WebKnown(req) THEN web ELSE Append(web, [req |-> req, resp |-> resp])

TwoNew(x) ==
    /\ its[x].phase = "init"
    /\ LET req == ContParams(its[x].kind, its[x].ident, None)
       IN \E resp \in WebAnswers(its[x].kind, req) :
            /\ its' = [its EXCEPT ![x] = Constructed(its[x], resp)]
            /\ Send(x, req, resp)
    /\ UNCHANGED <<itVars, pgVars, exVars, urlVars>>

TwoNext(x) ==
    /\ its[x].phase = "iter"
    /\ Len(its[x].outs) < MaxTwoCalls
    /\ IF Due(its[x], Held(x))
       THEN /\ Len(its[x].reqs) < MaxTwoFetch
            /\ LET req == ContParams(its[x].kind, its[x].ident, Held(x))
               IN \E resp \in WebAnswers(its[x].kind, req) :
                    /\ its' = [its EXCEPT ![x] = Called(its[x], Held(x), resp)]
                    /\ Send(x, req, resp)
       ELSE /\ its' = [its EXCEPT ![x] = Called(its[x], Held(x), WebAnswer(<<>>))]
            /\ UNCHANGED <<wire, web>>
    /\ UNCHANGED <<itVars, pgVars, exVars, urlVars>>

NextTwo == \E x \in {1, 2} : TwoNew(x) \/ TwoNext(x)

SpecTwo == InitTwo /\ [][NextTwo]_vars

-----------------------------------------------------------------------------
(* Reading the logs of an iterator *)

\* the iterator was created
Created == phase \in {"iter", "panic"}

\* the outcome of the i-th fetch
Fetched(i) == request_next(kind, resps[i])

\* the items that the elements of an array extract to, in order
ItemsOf(k, arr) ==
    LET ex == SelectSeq(arr, LAMBDA v : from_value(k, v).r = "some")
    IN [j \in 1..Len(ex) |-> from_value(k, ex[j]).item]

\* the items of the pages fetched by requests 1..n, page after page
RECURSIVE PagesItems(_)
PagesItems(n) ==
    IF n = 0 THEN <<>> ELSE PagesItems(n - 1) \o ItemsOf(kind, Fetched(n).array)

\* next() has returned end-of-sequence; the first call that did
HasEnd == \E c \in 1..Len(outs) : outs[c].r = "end"
FirstEnd == CHOOSE c \in 1..Len(outs) :
                outs[c].r = "end" /\ \A d \in 1..(c - 1) : outs[d].r # "end"

\* the items a drain delivered: the return values before the first end
Drained == [c \in 1..(FirstEnd - 1) |-> outs[c].item]

\* the number of requests issued before the c-th call of next() began
ReqsBefore(c) == IF c = 1 THEN 1 ELSE outs[c - 1].nreq

\* requests 1..n all succeeded, with at least one element each, all extracting
AllGood(n) ==
    \A i \in 1..n :
        /\ Fetched(i).ok
        /\ Len(Fetched(i).array) > 0
        /\ \A j \in 1..Len(Fetched(i).array) :
               from_value(kind, Fetched(i).array[j]).r = "some"

-----------------------------------------------------------------------------
(* C1: when every fetch of a drain succeeds, every fetched page holds an   *)
(* element and every element extracts, the drain (the calls of next() up   *)
(* to the first end-of-sequence) delivers the items of page 1, page 2, ... *)
(* up to the first response without a `continue` object, each once and in  *)
(* order, for every resource kind.                                         *)
C1_DrainYieldsAllPages ==
    (Created /\ HasEnd /\ AllGood(outs[FirstEnd].nreq)) =>
        LET n == outs[FirstEnd].nreq
        IN /\ \A c \in 1..(FirstEnd - 1) : outs[c].r = "item"
           /\ Drained = PagesItems(n)
           /\ ~resps[n].continue.present
           /\ \A i \in 1..(n - 1) : resps[i].continue.present

\* a drain over two pages, three items
C1_Witness ==
    /\ Created /\ HasEnd
    /\ outs[FirstEnd].nreq = 2
    /\ AllGood(2)
    /\ FirstEnd = 4

(* C2, as stated: when the first response has no `continue` object, a drain *)
(* delivers exactly the items of the first page, and the iterator never     *)
(* issues a second request.                                                 *)
C2_SinglePage ==
    (Created /\ ~resps[1].continue.present) =>
        /\ Len(reqs) = 1
        /\ HasEnd => Drained = ItemsOf(kind, Fetched(1).array)

\* the part of C2 about requests alone
C2_NoSecondFetch == (Created /\ ~resps[1].continue.present) => Len(reqs) = 1

(* C3: the first request ends with continue="" after the resource's        *)
(* parameters, format=json, action=query and the page identifier; every    *)
(* later request has, in place of the marker, the pairs of the `continue`  *)
(* object of the most recent successful fetch, and the same leading        *)
(* parameters in the same order.                                           *)
Leading(k, id) ==
    ResourceParams(k)
    \o << <<"format", "json">>, <<"action", "query">>,
          <<IF id.variant = "Title" THEN "titles" ELSE "pageids", id.s>> >>

\* the most recent successful fetch before request j
LastOkBefore(j) ==
    CHOOSE i \in 1..(j - 1) : Fetched(i).ok /\ \A m \in (i + 1)..(j - 1) : ~Fetched(m).ok

\* the pairs of a `continue` object, its string values verbatim
PairsOf(resp) ==
    [i \in 1..Len(resp.continue.entries) |->
        LET e == resp.continue.entries[i]
        IN <<e.k, IF e.v.t = "str" THEN e.v.s ELSE ContValue(e.v).s>>]

C3_RequestShape ==
    /\ Len(reqs) >= 1 => reqs[1] = Leading(kind, ident) \o << <<"continue", "">> >>
    /\ \A j \in 2..Len(reqs) :
          /\ \E i \in 1..(j - 1) : Fetched(i).ok
          /\ resps[LastOkBefore(j)].continue.present
          /\ reqs[j] = Leading(kind, ident) \o PairsOf(resps[LastOkBefore(j)])

\* a second request that carries a two-pair token with the server's own
\* `continue` key, and a third one after it
C3_Witness ==
    /\ Len(reqs) = 3
    /\ Len(reqs[2]) = Len(Leading(kind, ident)) + 2
    /\ reqs[2][Len(reqs[2]) - 1] = <<"continue", "||">>
    /\ reqs[2][Len(reqs[2])] = <<"offset", "5">>
    /\ reqs[3] # reqs[2]

(* C4, as stated: a response with a `continue` object of key/value pairs   *)
(* is followed up by exactly one fetch; here: never by more than one.  The *)
(* follow-ups of response i are the requests sent while i is the most      *)
(* recent successful fetch.                                                *)
FollowUps(i) == {j \in (i + 1)..Len(reqs) : LastOkBefore(j) = i}

C4_OneFollowUp ==
    \A i \in 1..Len(resps) :
        (Fetched(i).ok /\ resps[i].continue.present) => Cardinality(FollowUps(i)) <= 1

(* C5, as stated: once next() has returned end-of-sequence, every later    *)
(* call returns end-of-sequence and issues no request.                     *)
C5_EndIsFinal ==
    \A c \in 1..Len(outs) : \A d \in (c + 1)..Len(outs) :
        outs[c].r = "end" => (outs[d].r = "end" /\ outs[d].nreq = outs[c].nreq)

(* C6: a first fetch that fails (client error, unparsable body, no         *)
(* `query.pages`) makes the constructor return that error, and no iterator *)
(* exists; a continuation fetch that fails for one of these reasons makes  *)
(* next() return end-of-sequence.                                          *)
FailureOf(resp) ==
    CASE resp.status = "http" -> "HTTPError"
      [] resp.status = "json" -> "JSONError"
      [] ~(resp.query /\ resp.pages.present) -> "JSONPathError"
      [] OTHER -> ""

C6_ErrorAsymmetry ==
    /\ (Len(resps) >= 1 /\ FailureOf(resps[1]) # "") =>
           /\ phase = "err"
           /\ newErr = FailureOf(resps[1])
           /\ inner = <<>> /\ outs = <<>> /\ Len(reqs) = 1
    /\ phase = "err" => newErr # ""
    /\ Created => newErr = ""
    /\ \A c \in 1..Len(outs) :
           (outs[c].nreq > ReqsBefore(c) /\ FailureOf(resps[outs[c].nreq]) # "") =>
               outs[c].r = "end"

\* a continuation fetch answered without `query.pages`, swallowed by next()
C6_Witness ==
    /\ Created
    /\ \E c \in 1..Len(outs) :
           /\ outs[c].nreq > ReqsBefore(c)
           /\ FailureOf(resps[outs[c].nreq]) = "JSONPathError"
           /\ outs[c].r = "end"

(* C7, as stated: every next() call completes with an item or with         *)
(* end-of-sequence, for every resource kind and every element shape.       *)
C7_NextNeverAborts ==
    \A c \in 1..Len(outs) : outs[c].r \in {"item", "end"}


-----------------------------------------------------------------------------
(* Reading the log of a single-item call *)

Done == pc = "done"

\* the i-th response of the call reports a redirect
Redirects(i) == presps[i].status = "ok" /\ redirect(presps[i]).some

\* the page a request addresses: its last argument
Addressed(req) == req[Len(req)]

(* C8: when the first response to an operation reports a redirect to X,    *)
(* the outcome of the operation is the outcome of the same operation       *)
(* invoked on a fresh page built from title X, against the same server.    *)
(* calls[1] is the call whose first response redirected, the current call  *)
(* the one on the fresh page.                                              *)
C8_RedirectEqualsFreshPage ==
    (Done /\ Len(calls) = 1) =>
        /\ origin = Title(redirect(calls[1].resps[1]).s)
        /\ result = calls[1].result

\* both calls returned, the first over two redirects, and with a value
C8_Witness ==
    /\ Done /\ Len(calls) = 1
    /\ Len(calls[1].reqs) = 3
    /\ Len(preqs) = 2
    /\ result.ok /\ result.s = "world"

(* C9: a call of get_content, get_summary, get_html_content,               *)
(* get_coordinates or get_pageid (on a title) whose server reports k       *)
(* redirects and then a response without one returns after exactly k + 1   *)
(* requests, request i + 1 addressing the title response i reported, and   *)
(* returns what the last response holds.                                   *)
Following == {"get_content", "get_summary", "get_html_content", "get_coordinates",
              "get_pageid"}

C9_OneHopPerRoundTrip ==
    (op \in Following /\ ~Immediate(op, origin)) =>
        /\ Len(preqs) = Len(presps)
        /\ \A i \in 1..Len(preqs) :
              /\ SubSeq(preqs[i], 1, Len(preqs[i]) - 1) = OpParams(op)
              /\ Addressed(preqs[i]) =
                    IF i = 1 THEN query_param(origin)
                    ELSE <<"titles", presps[i - 1].redirects.items[1].to.s>>
        /\ \A i \in 1..(Len(presps) - 1) : Redirects(i)
        /\ pc = "call" => \A i \in 1..Len(presps) : Redirects(i)
        /\ Done =>
              LET last == presps[Len(presps)]
              IN /\ Len(preqs) >= 1
                 /\ ~Redirects(Len(presps))
                 /\ result = IF last.status = "http" THEN Fail("HTTPError")
                             ELSE IF last.status = "json" THEN Fail("JSONError")
                             ELSE Extract(op, last)

\* a chain of two redirects from a title: three requests, then the page id
C9_Witness ==
    /\ Done /\ calls = <<>>
    /\ op = "get_pageid" /\ origin = Title("A")
    /\ Len(preqs) = 3
    /\ Addressed(preqs[3]) = <<"titles", "B">>
    /\ result = OkStr("12")

(* C10: a response that reports no redirect and lacks the `query` object,  *)
(* the `pages` object or the field the operation asks for ends the call    *)
(* with JSONPathError, and no further request is sent.                     *)
\* the response holds what the operation asks for
Holds(o, resp) ==
    /\ resp.query /\ resp.pages.present /\ Len(resp.pages.entries) > 0
    /\ LET pg == resp.pages.entries[1].page
       IN CASE o \in {"get_content", "get_summary"} -> pg.obj /\ IsStr(pg.extract)
            [] o = "get_html_content" ->
                  /\ pg.obj /\ pg.revisions.t = "arr" /\ Len(pg.revisions.items) > 0
                  /\ IsStr(pg.revisions.items[1].star)
            [] o = "get_coordinates" ->
                  /\ pg.obj /\ pg.coordinates.t = "arr" /\ Len(pg.coordinates.items) > 0
                  /\ pg.coordinates.items[1].lat.t = "num"
                  /\ pg.coordinates.items[1].lon.t = "num"
            [] o = "get_pageid" -> TRUE
            [] o = "get_title" -> pg.obj /\ IsStr(pg.title)

\* the i-th response is a parsed tree that reports no redirect
Final(i) == presps[i].status = "ok" /\ ~redirect(presps[i]).some

\* C10 as stated, for all six operations
C10_MissingIsPathError ==
    \A i \in 1..Len(presps) :
        (Final(i) /\ ~Holds(op, presps[i])) =>
            /\ Done
            /\ i = Len(preqs)
            /\ result = Fail("JSONPathError")

\* the first page holds a first coordinate object
HasCoordinate(resp) ==
    /\ resp.query /\ resp.pages.present /\ Len(resp.pages.entries) > 0
    /\ LET pg == resp.pages.entries[1].page
       IN pg.obj /\ pg.coordinates.t = "arr" /\ Len(pg.coordinates.items) > 0
          /\ pg.coordinates.items[1].obj

\* C10 as amended: get_coordinates answers Ok(None) when there is no first
\* coordinate object, and JSONPathError only when that object lacks a numeric
\* lat or lon
C10_MissingIsPathErrorOrNoCoordinates ==
    \A i \in 1..Len(presps) :
        (Final(i) /\ ~Holds(op, presps[i])) =>
            /\ Done
            /\ i = Len(preqs)
            /\ result = IF op = "get_coordinates" /\ ~HasCoordinate(presps[i])
                        THEN OkNone
                        ELSE Fail("JSONPathError")

\* get_content on a page object without `extract`, and get_coordinates on a
\* coordinate without `lon`: both JSONPathError after one request
C10_Witness ==
    /\ Done /\ calls = <<>>
    /\ Len(preqs) = 1
    /\ Final(1) /\ ~Holds(op, presps[1])
    /\ op = "get_coordinates" /\ HasCoordinate(presps[1])
    /\ result = Fail("JSONPathError")



-----------------------------------------------------------------------------
(* Reading the requests of an iterator against the `continue` objects *)

\* the pairs a request carries after the leading parameters
Trailing(j) == SubSeq(reqs[j], Len(Leading(kind, ident)) + 1, Len(reqs[j]))

\* a non-negative integer in decimal notation
Digit(d) == SubSeq("0123456789", d + 1, d + 1)
RECURSIVE Decimal(_)
Decimal(n) == IF n < 10 THEN Digit(n) ELSE Decimal(n \div 10) \o Digit(n % 10)

\* every value of the `continue` object of a response is a string, a number
\* or a boolean
Stringifiable(resp) ==
    \A i \in 1..Len(resp.continue.entries) :
        resp.continue.entries[i].v.t \in {"str", "num", "bool"}

\* the pairs the claim expects for such an object
Stringified(resp) ==
    [i \in 1..Len(resp.continue.entries) |->
        LET e == resp.continue.entries[i]
        IN <<e.k, CASE e.v.t = "str" -> e.v.s
                    [] e.v.t = "num" -> Decimal(e.v.n)
                    [] e.v.t = "bool" -> IF e.v.b THEN "1" ELSE "0">>]

(* C11: the token built from a `continue` object keeps the keys, passes   *)
(* strings through, writes numbers in decimal and booleans as "1" and "0": *)
(* every follow-up request carries exactly these pairs, and so does the    *)
(* token the iterator holds.                                               *)
C11_TokenStringified ==
    /\ \A j \in 2..Len(reqs) :
          Stringifiable(resps[LastOkBefore(j)]) =>
              Trailing(j) = Stringified(resps[LastOkBefore(j)])
    /\ (Created /\ cont.some /\ Stringifiable(resps[LastOkBefore(Len(reqs) + 1)])) =>
          cont.v = Stringified(resps[LastOkBefore(Len(reqs) + 1)])

\* a follow-up sent with done=1, more=0, n=120, and one with offset=5
C11_Witness ==
    /\ Len(reqs) = 3
    /\ \E j \in 2..3 :
          Trailing(j) = << <<"done", "1">>, <<"more", "0">>, <<"n", "120">> >>
    /\ \E j \in 2..3 : Trailing(j) = << <<"continue", "||">>, <<"offset", "5">> >>

\* the call of next() that issued request i, i > 1
CallOf(i) == CHOOSE c \in 1..Len(outs) : outs[c].nreq = i /\ ReqsBefore(c) < i

\* the fetch that received response i failed with JSONPathError: the
\* constructor returned it, or next() ended the sequence
FetchFailedOn(i) ==
    IF i = 1 THEN phase = "err" /\ newErr = "JSONPathError"
    ELSE outs[CallOf(i)].r = "end"

\* response i holds a `continue` object with a value of one of the types
HasValueOf(i, types) ==
    \E m \in 1..Len(resps[i].continue.entries) :
        resps[i].continue.entries[m].v.t \in types

-----------------------------------------------------------------------------
(* Reading the log of the extractors *)

\* the string s starts with the prefix p
HasPrefix(s, p) == Len(s) >= Len(p) /\ \A i \in 1..Len(p) : SubSeq(s, i, i) = SubSeq(p, i, i)

(* C13: a category title that starts with "Category: " is exposed with     *)
(* exactly that one leading prefix removed, every other title unchanged.   *)
C13_CategoryPrefixStripped ==
    ekind = "categories" =>
        \A i \in 1..Len(gots) :
            (raws[i].obj /\ raws[i].title.t = "str") =>
                /\ gots[i].r = "some"
                /\ IF HasPrefix(raws[i].title.s, "Category: ")
                   THEN raws[i].title.s = "Category: " \o gots[i].item.title
                   ELSE gots[i].item.title = raws[i].title.s

\* "Category: Category: Foo" is exposed as "Category: Foo", and that title,
\* handed in again, as "Foo"
C13_Witness ==
    /\ ekind = "categories"
    /\ Len(gots) = 2
    /\ raws[1].title = JStr("Category: Category: Foo")
    /\ gots[1].item.title = "Category: Foo"
    /\ gots[2].item.title = "Foo"

(* C14: a reference that starts with "http:" is exposed unchanged, any     *)
(* other reference s as "http:" followed by s; every Reference url starts  *)
(* with "http:", and the url of a Reference, normalised again, is the same *)
(* url.                                                                    *)
C14_ReferenceNormalised ==
    ekind = "references" =>
        /\ \A i \in 1..Len(gots) :
              (raws[i].obj /\ raws[i].star.t = "str") =>
                  /\ gots[i].r = "some"
                  /\ gots[i].item.url =
                        IF HasPrefix(raws[i].star.s, "http:") THEN raws[i].star.s
                        ELSE "http:" \o raws[i].star.s
                  /\ HasPrefix(gots[i].item.url, "http:")
        /\ Len(gots) = 2 =>
              /\ raws[2].star = JStr(gots[1].item.url)
              /\ gots[2] = gots[1]

\* "//example.com/x" is exposed as "http://example.com/x", and stays so
C14_Witness ==
    /\ ekind = "references"
    /\ Len(gots) = 2
    /\ raws[1].star = JStr("//example.com/x")
    /\ gots[1].item.url = "http://example.com/x"
    /\ gots[2].item.url = "http://example.com/x"

\* the element lacks a field the item type requires, or holds it with a
\* type that is no string
LacksRequired(k, v) ==
    \/ ~v.obj
    \/ k = "references" /\ v.star.t # "str"
    \/ k \in {"links", "categories"} /\ v.title.t # "str"
    \/ k = "images" /\ \/ v.title.t # "str"
                       \/ v.imageinfo.t # "arr"
                       \/ Len(v.imageinfo.items) = 0
                       \/ ~v.imageinfo.items[1].obj
                       \/ v.imageinfo.items[1].url.t # "str"
                       \/ v.imageinfo.items[1].descriptionurl.t # "str"

-----------------------------------------------------------------------------
(* C15, as stated: an element that does not extract is skipped; next()     *)
(* never returns end-of-sequence while the buffer still holds an element   *)
(* that extracts.  The buffer is the one the last call of next() left.     *)
C15_UnextractableSkipped ==
    (phase = "iter" /\ Len(outs) > 0 /\ outs[Len(outs)].r = "end") =>
        ItemsOf(kind, inner) = <<>>

\* the last call of next() issued request i, and its response parsed but has
\* no `query.pages` object
LastCallMissedPages(i) ==
    /\ Len(outs) > 0
    /\ i = outs[Len(outs)].nreq
    /\ i > ReqsBefore(Len(outs))
    /\ resps[i].status = "ok"
    /\ ~(resps[i].query /\ resps[i].pages.present)

(* C17, as stated: on a continuation fetch a response without the `pages`  *)
(* object is an empty page: the buffer is empty and the token is the one   *)
(* of that response, or none if it has no `continue` object.               *)
C17_MissingPagesIsEmptyPage ==
    \A i \in 2..Len(reqs) :
        LastCallMissedPages(i) =>
            /\ inner = <<>>
            /\ cont = IF resps[i].continue.present
                      THEN Some(PairsOf(resps[i])) ELSE None

(* C20: the state `buffer empty and no token held' is absorbing: a step    *)
(* from it leaves buffer, token and requests as they are, and a next()     *)
(* call made in it returns end-of-sequence.                                *)
C20_ExhaustedIsAbsorbing ==
    [][(phase = "iter" /\ inner = <<>> /\ ~cont.some) =>
          /\ phase' = "iter"
          /\ inner' = <<>>
          /\ cont' = cont
          /\ reqs' = reqs
          /\ resps' = resps
          /\ outs' # outs =>
                /\ Len(outs') = Len(outs) + 1
                /\ SubSeq(outs', 1, Len(outs)) = outs
                /\ outs'[Len(outs')].r = "end"]_vars

\* two pages delivered, then next() called twice more
C20_Witness ==
    /\ phase = "iter" /\ inner = <<>> /\ ~cont.some
    /\ Len(reqs) = 2
    /\ Len(outs) = 4
    /\ outs[1].r = "item" /\ outs[2].r = "item"
    /\ outs[3].r = "end" /\ outs[4].r = "end"

-----------------------------------------------------------------------------
(* Reading the url of a Wikipedia *)

\* the format f with its marker replaced by the language l; f itself when
\* it holds no marker
Formatted(f, l) ==
    IF \E i \in 1..(Len(f) - 9) : SubSeq(f, i, i + 9) = "{language}"
    THEN LET i == CHOOSE i \in 1..(Len(f) - 9) : SubSeq(f, i, i + 9) = "{language}"
         IN SubSeq(f, 1, i - 1) \o l \o SubSeq(f, i + 10, Len(f))
    ELSE f

(* C18, as stated: after any sequence of assignments to `language` and     *)
(* calls of set_base_url, base_url() is the format set last with its       *)
(* marker replaced by the language selected, and that format itself when   *)
(* it holds no marker.                                                     *)
C18_BaseUrlIsFormat ==
    base_url(pre_language_url, language, post_language_url) = Formatted(format, language)

-----------------------------------------------------------------------------
\* the operation asks for the identifier the page was created with
AsksOwnIdentifier ==
    \/ op = "get_pageid" /\ origin.variant = "PageId"
    \/ op = "get_title" /\ origin.variant = "Title"

(* C19: get_pageid on a page created from an id returns that id and        *)
(* get_title on a page created from a title returns that title, without    *)
(* any request; get_pageid on a title page and get_title on an id page     *)
(* do not return before they have sent a request.                          *)
C19_OwnIdentifierWithoutRequest ==
    op \in {"get_pageid", "get_title"} =>
        IF AsksOwnIdentifier
        THEN /\ preqs = <<>>
             /\ Done => result = OkStr(origin.s)
        ELSE Done => Len(preqs) >= 1

\* get_title on the page of id 7 asked the server and was redirected; then
\* get_title on a page created from that title returned it without a request
C19_Witness ==
    /\ op = "get_title"
    /\ Done /\ Len(calls) = 1
    /\ calls[1].origin = PageId("7")
    /\ Len(calls[1].reqs) = 1
    /\ origin.variant = "Title"
    /\ result = OkStr(origin.s)
    /\ preqs = <<>>

-----------------------------------------------------------------------------
(* C21: the constructor issues one request; a next() call issues one       *)
(* request when the buffer is empty and a token is held, none otherwise;   *)
(* after n calls the iterator has issued at most n + 1 requests.           *)
C21_RequestsPerCall ==
    /\ []((phase # "init" /\ outs = <<>>) => Len(reqs) = 1)
    /\ [](phase # "init" => Len(reqs) <= Len(outs) + 1)
    /\ [][outs' # outs =>
            Len(reqs') = Len(reqs) + (IF inner = <<>> /\ cont.some THEN 1 ELSE 0)]_vars

\* three calls: the first popped the buffer, the next two fetched a page each
\* (MaxFetch requests in all)
C21_Witness ==
    /\ Len(outs) >= 3
    /\ outs[1].nreq = 1
    /\ outs[2].nreq = 2
    /\ outs[3].nreq = 3

\* no fetch made so far failed, and every element fetched extracts
NoFailure ==
    \A i \in 1..Len(resps) :
        /\ Fetched(i).ok
        /\ \A j \in 1..Len(Fetched(i).array) :
               from_value(kind, Fetched(i).array[j]).r = "some"

(* C22, as stated: when no fetch fails and every element extracts, next()  *)
(* returns end-of-sequence only with the buffer empty and no token held.   *)
(* The state is the one the last call of next() left.                      *)
C22_EndOnlyWhenExhausted ==
    (phase = "iter" /\ Len(outs) > 0 /\ outs[Len(outs)].r = "end" /\ NoFailure) =>
        (inner = <<>> /\ ~cont.some)

-----------------------------------------------------------------------------
\* the call of next() that issued request i is the last thing that happened
JustFetched(i) == i = Len(reqs) /\ Len(outs) > 0 /\ outs[Len(outs)].nreq = i

(* C23: a continuation fetch that fails ends the call with end-of-sequence *)
(* and leaves the buffer empty and the token that was sent in place; the   *)
(* request after it is the same request, and when that one succeeds with   *)
(* a first element that extracts, the call that sent it returns the item.  *)
C23_FailedFetchKeepsToken ==
    \A i \in 2..Len(reqs) :
        ~Fetched(i).ok =>
            /\ outs[CallOf(i)].r = "end"
            /\ JustFetched(i) =>
                  /\ phase = "iter"
                  /\ inner = <<>>
                  /\ cont = Some(Trailing(i))
            /\ i < Len(reqs) =>
                  /\ reqs[i + 1] = reqs[i]
                  /\ CallOf(i + 1) = CallOf(i) + 1
                  /\ (/\ Fetched(i + 1).ok
                      /\ Len(Fetched(i + 1).array) > 0
                      /\ from_value(kind, Fetched(i + 1).array[1]).r = "some") =>
                        /\ outs[CallOf(i + 1)].r = "item"
                        /\ outs[CallOf(i + 1)].item =
                              from_value(kind, Fetched(i + 1).array[1]).item

\* the second request failed, the third repeated it and its call returned an item
C23_Witness ==
    /\ Len(reqs) = 3
    /\ ~Fetched(2).ok
    /\ reqs[3] = reqs[2]
    /\ Fetched(3).ok
    /\ Len(outs) > 0
    /\ outs[Len(outs)].nreq = 3
    /\ outs[Len(outs)].r = "item"

-----------------------------------------------------------------------------
\* the fetch of response i is the last thing that happened: the constructor
\* made it and next() is not called yet, or the last call of next() made it
Latest(i) ==
    /\ i = Len(reqs)
    /\ IF i = 1 THEN outs = <<>> ELSE JustFetched(i) /\ ReqsBefore(Len(outs)) < i

\* response i is well formed and its `pages` object has no entry
NoPageIn(i) == ContMacro(resps[i]).ok /\ Len(resps[i].pages.vals) = 0

\* response i is well formed and its first page lacks the array field of the resource
NoFieldIn(i) ==
    /\ ContMacro(resps[i]).ok
    /\ Len(resps[i].pages.vals) > 0
    /\ LET page == resps[i].pages.vals[1]
       IN ~(page.obj /\ page.list.t = "arr" /\ page.list.field = ResourceField(kind))

(* C24: for references, links, categories and langlinks, a response whose  *)
(* `pages` object has no entry leaves the buffer empty and no token, with  *)
(* or without a `continue` object, and no request follows it; a response   *)
(* whose first page lacks the array field leaves the buffer empty and the  *)
(* token of its `continue` object held.                                    *)
C24_NoPageDropsToken ==
    (kind # "images" /\ kind # "") =>
        \A i \in 1..Len(resps) :
            /\ NoPageIn(i) =>
                  /\ i = Len(reqs)
                  /\ Latest(i) => (phase = "iter" /\ inner = <<>> /\ cont = None)
                  /\ \A c \in 1..Len(outs) : outs[c].nreq = i => outs[c].r = "end"
            /\ (NoFieldIn(i) /\ Latest(i)) =>
                  /\ phase = "iter"
                  /\ inner = <<>>
                  /\ cont = ContMacro(resps[i]).cont

\* a page without the array field kept its token, the refill came without a
\* page but with a `continue` object, and the sequence ended without a token
C24_Witness ==
    /\ kind = "links"
    /\ Len(reqs) = 2
    /\ NoFieldIn(1)
    /\ ContMacro(resps[1]).cont.some
    /\ NoPageIn(2)
    /\ ContMacro(resps[2]).cont.some
    /\ Len(outs) = 2
    /\ cont = None

-----------------------------------------------------------------------------
\* response i is a well-formed query result, with at least one element,
\* whose `continue` object holds an array or an object for a value
Malformed(i) ==
    /\ resps[i].status = "ok"
    /\ resps[i].query
    /\ resps[i].pages.present
    /\ Len(resps[i].pages.vals) > 0
    /\ HasValueOf(i, {"arr", "obj"})

(* C25: a response with a malformed `continue` object fails its fetch as a *)
(* whole. As the first response, the constructor returns JSONPathError and *)
(* no iterator exists to deliver its items; as a later response, the call  *)
(* of next() returns end-of-sequence and leaves the buffer empty and the   *)
(* token that was sent in place.                                           *)
C25_MalformedContinueFailsFetch ==
    \A i \in 1..Len(resps) :
        Malformed(i) =>
            IF i = 1
            THEN /\ phase = "err"
                 /\ newErr = "JSONPathError"
                 /\ inner = <<>>
                 /\ outs = <<>>
            ELSE /\ phase # "err"
                 /\ outs[CallOf(i)].r = "end"
                 /\ JustFetched(i) => (inner = <<>> /\ cont = Some(Trailing(i)))

\* the constructor failed on a malformed first response
C25_WitnessFirst ==
    /\ Len(resps) = 1
    /\ Malformed(1)
    /\ phase = "err"

\* a refill failed on a malformed response that held an element
C25_Witness ==
    /\ Len(resps) = 2
    /\ Malformed(2)
    /\ Len(outs) = 2
    /\ outs[2].r = "end"
    /\ cont.some

-----------------------------------------------------------------------------
\* the server is known to answer page id with a redirect; the page it names
Redirecting(id) ==
    Known(id) /\ Answer(id).status = "ok" /\ redirect(Answer(id)).some
Target(id) == Title(redirect(Answer(id)).s)

\* the page reached from id over n redirects of the server, if there are n
RECURSIVE Hop(_, _)
Hop(id, n) ==
    IF n = 0 THEN Some(id)
    ELSE IF Redirecting(id) THEN Hop(Target(id), n - 1)
    ELSE None

\* the redirects of the server lead from the page of the call back to a page
\* already passed
Cyclic ==
    \E n \in 1..Cardinality(PIdents) : \E m \in 0..(n - 1) :
        Hop(origin, n).some /\ Hop(origin, n) = Hop(origin, m)

(* C26: against a server whose redirects form a cycle, an operation that   *)
(* follows redirects never returns, neither a value nor RedirectCycle nor  *)
(* any other error: every response leads to another request (up to the hop *)
(* bound of the model, the code has none).                                 *)
C26_CycleNeverReturns ==
    (op \in Following /\ Cyclic) =>
        /\ pc = "call"
        /\ result = NoResult
        /\ \A i \in 1..Len(presps) : Redirects(i)
        /\ Len(preqs) < MaxHops => ENABLED Activate

\* a cycle A -> B -> A followed for as many requests as the model allows
C26_Witness ==
    /\ op = "get_content"
    /\ Cyclic
    /\ Len(preqs) = MaxHops
    /\ Addressed(preqs[1]) = Addressed(preqs[3])
    /\ Addressed(preqs[1]) # Addressed(preqs[2])

-----------------------------------------------------------------------------
\* the arguments of a request before the one that addresses the page
Fixed(req) == SubSeq(req, 1, Len(req) - 1)

\* the sequence holds the pair
Carries(req, pair) == \E m \in 1..Len(req) : req[m] = pair

(* C27: every query sent after a redirect addresses the target with       *)
(* `titles`, also when the first query used `pageids`, and repeats the      *)
(* other arguments of the first query in the same order, `redirects`,      *)
(* `format=json` and `action=query` among them.                            *)
C27_FollowUpSameParameters ==
    \A i \in 2..Len(preqs) :
        /\ redirect(presps[i - 1]).some
        /\ Addressed(preqs[i]) = <<"titles", redirect(presps[i - 1]).s>>
        /\ Fixed(preqs[i]) = Fixed(preqs[1])
        /\ Carries(Fixed(preqs[i]), <<"redirects", "">>)
        /\ Carries(Fixed(preqs[i]), <<"format", "json">>)
        /\ Carries(Fixed(preqs[i]), <<"action", "query">>)

\* a page built from an id, redirected twice: pageids, then titles twice
C27_Witness ==
    /\ Len(preqs) = 3
    /\ origin = PageId("7")
    /\ Addressed(preqs[1]) = <<"pageids", "7">>
    /\ Addressed(preqs[2])[1] = "titles"
    /\ Addressed(preqs[3])[1] = "titles"
    /\ Addressed(preqs[3]) # Addressed(preqs[2])

-----------------------------------------------------------------------------
(* C28: operations never change the identifier of the page they are called *)
(* on: the first request of every call on the page addresses the           *)
(* identifier the page was built with, and an operation repeated on the    *)
(* page sends the requests of its first run again, the followed redirects  *)
(* included, and returns the same result.                                  *)
C28_PageKeepsIdentifier ==
    /\ Len(preqs) > 0 => Addressed(preqs[1]) = query_param(origin)
    /\ \A c \in 1..Len(calls) :
          /\ calls[c].origin = origin
          /\ Len(calls[c].reqs) > 0 =>
                Addressed(calls[c].reqs[1]) = query_param(origin)
          /\ (Done /\ calls[c].op = op) =>
                /\ preqs = calls[c].reqs
                /\ result = calls[c].result

\* get_content returned over a redirect, and did so again when repeated
C28_Witness ==
    /\ Done
    /\ Len(calls) = 1
    /\ op = "get_content"
    /\ calls[1].op = "get_content"
    /\ Len(calls[1].reqs) = 2
    /\ Len(preqs) = 2
    /\ result.ok

-----------------------------------------------------------------------------
\* the first element of `query.redirects` of a response holds a string `to`
FirstHasTo(resp) ==
    /\ resp.query
    /\ resp.redirects.t = "arr"
    /\ Len(resp.redirects.items) > 0
    /\ resp.redirects.items[1].obj
    /\ resp.redirects.items[1].to.t = "str"

\* an element after the first holds a string `to`
LaterHasTo(resp) ==
    /\ resp.redirects.t = "arr"
    /\ \E m \in 2..Len(resp.redirects.items) :
          resp.redirects.items[m].obj /\ resp.redirects.items[m].to.t = "str"

(* C29: only the first element of `query.redirects` decides. When it holds *)
(* a string `to` the redirect is followed (get_title returns the string)   *)
(* and the `pages` data of the response is not used; otherwise the call    *)
(* returns what the response itself yields and sends no further request,   *)
(* also when a later element holds a `to`.                                 *)
C29_FirstRedirectElementDecides ==
    \A i \in 1..Len(presps) :
        presps[i].status = "ok" =>
            IF FirstHasTo(presps[i])
            THEN LET to == presps[i].redirects.items[1].to.s
                 IN IF op = "get_title"
                    THEN Done /\ i = Len(preqs) /\ result = OkStr(to)
                    ELSE \/ i < Len(preqs) /\ Addressed(preqs[i + 1]) = <<"titles", to>>
                         \/ i = Len(preqs) /\ pc = "call" /\ self = Title(to)
            ELSE /\ Done
                 /\ i = Len(preqs)
                 /\ result = Extract(op, presps[i])

\* a response whose second redirect element alone holds a `to` ended the
\* call with the content of its page
C29_Witness ==
    /\ Done
    /\ op = "get_content"
    /\ Len(presps) = 1
    /\ ~FirstHasTo(presps[1])
    /\ LaterHasTo(presps[1])
    /\ result = OkStr("hello")

\* a redirect response that also held a page was followed
C29_WitnessFollowed ==
    /\ Len(presps) = 2
    /\ op = "get_content"
    /\ FirstHasTo(presps[1])
    /\ presps[1].pages.present
    /\ Len(presps[1].pages.entries) > 0
    /\ Addressed(preqs[2]) = <<"titles", "B">>

-----------------------------------------------------------------------------
\* the iterator of the same resource and page run alone against the same
\* server, after its constructor and n calls of next()
RECURSIVE Alone(_, _)
Alone(x, n) ==
    IF n = 0
    THEN LET it == Fresh(its[x].kind, its[x].ident)
         IN Constructed(it, WebAnswer(ContParams(it.kind, it.ident, None)))
    ELSE LET it == Alone(x, n - 1)
         IN Called(it, it.cont, WebAnswer(ContParams(it.kind, it.ident, it.cont)))

\* the requests of iterator x in the order the client was handed them
OnWire(x) ==
    LET mine == SelectSeq(wire, LAMBDA w : w.it = x)
    IN [i \in 1..Len(mine) |-> mine[i].req]

(* C30: however the calls on two iterators of one client interleave, each  *)
(* iterator returns the items and sends the requests it returns and sends  *)
(* when it runs alone against the same server: its requests carry its own  *)
(* page, its own resource and the token of its own last response, never    *)
(* the other iterator's.                                                   *)
C30_InterleavingIndependent ==
    \A x \in 1..Len(its) :
        its[x].phase # "init" =>
            /\ its[x] = Alone(x, Len(its[x].outs))
            /\ OnWire(x) = its[x].reqs

\* both iterators fetched a continuation page, each with another token, and
\* the requests of the two alternate on the wire
C30_Witness ==
    /\ Len(its) = 2
    /\ Len(wire) = 4
    /\ wire[1].it # wire[2].it
    /\ wire[3].it # wire[4].it
    /\ Len(its[1].reqs) = 2
    /\ Len(its[2].reqs) = 2
    /\ its[1].reqs[2] # its[2].reqs[2]
    /\ Len(its[1].outs) = MaxTwoCalls
    /\ Len(its[2].outs) = MaxTwoCalls

=============================================================================
